---- MODULE Spec2Model ----
(***************************************************************************)
(* Evaluation orchestration and resilience layer of the social-media      *)
(* agent: the model router's fallback chain and retrying invocation, the  *)
(* two-tier cache store and its keys, the parallel executor, the decision *)
(* aggregator and the memoized review pipeline.                           *)
(***************************************************************************)
EXTENDS Integers, Sequences, FiniteSets, TLC

VARIABLES
    \* ---- utils/model_router.py : ModelRouter ----
    fallback_models,   \* self.fallback_models : model -> model or None
    pc,                \* position of call_with_fallback: idle / attempting / returned / raised
    model_name,        \* argument model_name of the running call
    max_retries,       \* argument max_retries of the running call
    fallback_chain,    \* local fallback_chain
    idx,               \* position of the for-loop in fallback_chain (1-based)
    attempt,           \* loop variable attempt of range(max_retries)
    last_exception,    \* local last_exception
    calls,             \* log of the call_function invocations of the running call
    outcome,           \* what reached the caller: (result, model) or the raised error
    chain_query,       \* arguments and result of the last get_fallback_chain call
    \* ---- tools/review_optimized.py : _calculate_overall_score ----
    agg_in,            \* arguments quality_result, compliance_result, engagement_result
    agg_out,           \* the returned dict, or NoOverall before the call
    \* ---- utils/cache_manager.py : CacheManager ----
    memory_cache,      \* self._memory_cache: the entries in dict (insertion) order
    disk_cache,        \* the cache directory: key -> content of the key's file
    stats,             \* self.stats
    now,               \* time.time()
    heap,              \* the mutable objects that cached values refer to
    last_op,           \* the last completed cache operation and what it returned
    last_set,          \* per key: what the last completed set stored
    ops,               \* number of cache operations made so far
    \* ---- tools/review_optimized.py : review_content_optimized ----
    prev_call,         \* the review_content_optimized call before the last one
    last_call,         \* the last review_content_optimized call and its result
    \* ---- utils/parallel_executor.py : ParallelExecutor.execute_tasks ----
    ex_pc,             \* position of the caller: idle / collecting / exiting / returned / raised
    ex_tasks,          \* argument tasks: the task names in submission order
    ex_timeout,        \* whether a timeout was given
    max_workers,       \* self.max_workers
    ex_state,          \* per task: queued / running / done
    ex_body,           \* per task: what task.func did (returned a value or raised)
    ex_future,         \* per task: the TaskResult its future holds
    ex_results,        \* local results: task name -> TaskResult
    ex_timed_out,      \* as_completed raised TimeoutError
    \* ---- utils/cache_manager.py : cache_key ----
    key_in,            \* the argument lists of two cache_key calls
    key_out,           \* the two keys returned
    \* ---- utils/parallel_executor.py : parallel_review, with its caller ----
    pipe_in,           \* what each evaluator does, and enable_engagement
    pipe_out,          \* what review_content_optimized returned
    \* ---- utils/cache_manager.py : threads sharing the global CacheManager ----
    threads            \* per thread: the call it makes, its position and its locals

routerVars == <<fallback_models, pc, model_name, max_retries, fallback_chain,
                idx, attempt, last_exception, calls, outcome, chain_query>>

aggVars == <<agg_in, agg_out>>

cacheVars == <<memory_cache, disk_cache, stats, now, heap, last_op, last_set, ops>>

reviewVars == <<prev_call, last_call>>

execVars == <<ex_pc, ex_tasks, ex_timeout, max_workers, ex_state, ex_body, ex_future,
              ex_results, ex_timed_out>>

keyVars == <<key_in, key_out>>

pipeVars == <<pipe_in, pipe_out>>

threadVars == <<threads>>

vars == <<routerVars, aggVars, cacheVars, reviewVars, execVars, keyVars, pipeVars, threadVars>>

(* the variables each specification leaves alone *)
notRouter == <<aggVars, cacheVars, reviewVars, execVars, keyVars, pipeVars, threadVars>>
notAggregator == <<routerVars, cacheVars, reviewVars, execVars, keyVars, pipeVars, threadVars>>
notCache == <<routerVars, aggVars, reviewVars, execVars, keyVars, pipeVars, threadVars>>
notReview == <<routerVars, aggVars, execVars, keyVars, pipeVars, threadVars>>
notExecutor == <<routerVars, aggVars, cacheVars, reviewVars, keyVars, pipeVars, threadVars>>
notPipe == <<routerVars, aggVars, cacheVars, reviewVars, execVars, keyVars, threadVars>>
notKey == <<routerVars, aggVars, cacheVars, reviewVars, execVars, pipeVars, threadVars>>
notThreads == <<routerVars, aggVars, reviewVars, execVars, keyVars, pipeVars>>

----------------------------------------------------------------------------
(* Bounds *)
MaxRetries == 2
MaxDepth == 3

(* default of get_fallback_chain's max_depth, used by call_with_fallback *)
DefaultMaxDepth == 5

(* Python's None *)
None == "None"

Models == {"m1", "m2", "m3"}
Results == {"r1", "r2"}
ErrTypes == {"TimeoutError", "ConnectionError"}

InSeq(x, s) == \E i \in 1..Len(s) : s[i] = x
Last(s) == s[Len(s)]

----------------------------------------------------------------------------
(* ModelRouter.get_fallback_model: self.fallback_models.get(primary_model) *)
get_fallback_model(fb, m) == IF m \in DOMAIN fb THEN fb[m] ELSE None


(* get_fallback_chain without the "fallback in chain" guard *)
RECURSIVE ChainLoop_noCycleGuard(_, _, _, _, _)
ChainLoop_noCycleGuard(fb, chain, current, depth, max_depth) ==
    IF depth < max_depth
    THEN LET fallback == get_fallback_model(fb, current) IN
         IF fallback = None
         THEN chain
         ELSE ChainLoop_noCycleGuard(fb, Append(chain, fallback), fallback, depth + 1, max_depth)
    ELSE chain

(* ModelRouter.get_fallback_chain: the while loop, one iteration per level *)
RECURSIVE ChainLoop(_, _, _, _, _)
ChainLoop(fb, chain, current, depth, max_depth) ==
    IF depth < max_depth
    THEN LET fallback == get_fallback_model(fb, current) IN
         IF fallback = None \/ InSeq(fallback, chain)
         THEN chain
         ELSE ChainLoop(fb, Append(chain, fallback), fallback, depth + 1, max_depth)
    ELSE chain

get_fallback_chain(fb, primary_model, max_depth) ==
    ChainLoop(fb, <<primary_model>>, primary_model, 0, max_depth)

(* Exceptions are records of a type and a message; str(e) is the message *)
NoException == [type |-> "NoneType", msg |-> <<"None">>]
Errors == {[type |-> t, msg |-> <<t>>] : t \in ErrTypes}
str(e) == e.msg

(* raise Exception(f"... {str(last_exception)}") at the end of call_with_fallback *)
AllFailedError(last) ==
    [type |-> "Exception", msg |-> <<"all models failed, last error: ">> \o str(last)]

NoOutcome == [kind |-> "none", result |-> None, model_used |-> None, error |-> NoException]
Returned(res, m) == [kind |-> "returned", result |-> res, model_used |-> m, error |-> NoException]
Raised(e) == [kind |-> "raised", result |-> None, model_used |-> None, error |-> e]

NoQuery == [model |-> None, max_depth |-> 0, chain |-> <<>>]

RouterInit ==
    /\ fallback_models \in [Models -> Models \cup {None}]
    /\ pc = "idle"
    /\ model_name = None
    /\ max_retries = 0
    /\ fallback_chain = <<>>
    /\ idx = 0
    /\ attempt = 0
    /\ last_exception = NoException
    /\ calls = <<>>
    /\ outcome = NoOutcome
    /\ chain_query = NoQuery

(* ModelConfig.FALLBACK_MODELS as shipped: a key maps to its fallback, or to
   None where no cheaper model exists; "gpt-4o-vision" is not a key *)
FALLBACK_MODELS ==
    [m \in {"gpt-4o", "claude-3-5-sonnet-20241022", "claude-3.5-sonnet", "qwen2.5-vl", "gpt-4o-mini"} |->
        CASE m = "gpt-4o" -> "gpt-4o-mini"
          [] m = "claude-3-5-sonnet-20241022" -> "gpt-4o"
          [] m = "claude-3.5-sonnet" -> "gpt-4o"
          [] m = "qwen2.5-vl" -> "gpt-4o-vision"
          [] m = "gpt-4o-mini" -> None]

(* ModelConfig.MODEL_INFO[m]["cost_level"] *)
MODEL_INFO ==
    [m \in {"gpt-4o", "gpt-4o-mini", "claude-3-5-sonnet-20241022", "claude-3.5-sonnet", "qwen2.5-vl", "gpt-4o-vision"} |->
        [cost_level |-> CASE m = "gpt-4o" -> "high"
                          [] m = "gpt-4o-mini" -> "low"
                          [] m = "claude-3-5-sonnet-20241022" -> "high"
                          [] m = "claude-3.5-sonnet" -> "high"
                          [] m = "qwen2.5-vl" -> "medium"
                          [] m = "gpt-4o-vision" -> "high"]]

(* ModelRouter.__init__: self.fallback_models = ModelConfig.FALLBACK_MODELS *)
ConfiguredInit ==
    /\ fallback_models = FALLBACK_MODELS
    /\ pc = "idle"
    /\ model_name = None
    /\ max_retries = 0
    /\ fallback_chain = <<>>
    /\ idx = 0
    /\ attempt = 0
    /\ last_exception = NoException
    /\ calls = <<>>
    /\ outcome = NoOutcome
    /\ chain_query = NoQuery

(* A caller invokes get_fallback_chain(m, d) *)
GetFallbackChain(m, d) ==
    /\ chain_query' = [model |-> m, max_depth |-> d,
                       chain |-> get_fallback_chain(fallback_models, m, d)]
    /\ UNCHANGED <<fallback_models, pc, model_name, max_retries, fallback_chain,
                   idx, attempt, last_exception, calls, outcome>>

(* call_with_fallback(m, call_function, max_retries=r): entry up to the first
   call of call_function; with r = 0 no call is made and the function raises *)
CallWithFallback(m, r) ==
    /\ pc # "attempting"
    /\ model_name' = m
    /\ max_retries' = r
    /\ fallback_chain' = get_fallback_chain(fallback_models, m, DefaultMaxDepth)
    /\ last_exception' = NoException
    /\ calls' = <<>>
    /\ idx' = 1
    /\ attempt' = 0
    /\ IF r > 0
       THEN pc' = "attempting" /\ outcome' = NoOutcome
       ELSE pc' = "raised" /\ outcome' = Raised(AllFailedError(NoException))
    /\ UNCHANGED <<fallback_models, chain_query>>

(* call_with_fallback reporting the requested model instead of the one that answered *)
InvokeSucceeds_reportsPrimary(res) ==
    /\ pc = "attempting"
    /\ calls' = Append(calls, [model |-> fallback_chain[idx], ok |-> TRUE,
                               result |-> res, error |-> NoException])
    /\ outcome' = Returned(res, model_name)
    /\ pc' = "returned"
    /\ UNCHANGED <<fallback_models, model_name, max_retries, fallback_chain,
                   idx, attempt, last_exception, chain_query>>

(* call_function(model=model) returns res: return result, model *)
InvokeSucceeds(res) ==
    /\ pc = "attempting"
    /\ calls' = Append(calls, [model |-> fallback_chain[idx], ok |-> TRUE,
                               result |-> res, error |-> NoException])
    /\ outcome' = Returned(res, fallback_chain[idx])
    /\ pc' = "returned"
    /\ UNCHANGED <<fallback_models, model_name, max_retries, fallback_chain,
                   idx, attempt, last_exception, chain_query>>

(* call_with_fallback degrading after the first failure, without retrying *)
InvokeFails_noRetry(e) ==
    /\ pc = "attempting"
    /\ calls' = Append(calls, [model |-> fallback_chain[idx], ok |-> FALSE,
                               result |-> None, error |-> e])
    /\ last_exception' = e
    /\ IF idx < Len(fallback_chain)
       THEN /\ idx' = idx + 1
            /\ attempt' = 0
            /\ UNCHANGED <<pc, outcome>>
       ELSE /\ pc' = "raised"
            /\ outcome' = Raised(AllFailedError(e))
            /\ UNCHANGED <<idx, attempt>>
    /\ UNCHANGED <<fallback_models, model_name, max_retries, fallback_chain, chain_query>>

(* call_with_fallback with an off-by-one retry test: one attempt too many per model *)
InvokeFails_extraAttempt(e) ==
    /\ pc = "attempting"
    /\ calls' = Append(calls, [model |-> fallback_chain[idx], ok |-> FALSE,
                               result |-> None, error |-> e])
    /\ last_exception' = e
    /\ IF attempt + 1 <= max_retries
       THEN /\ attempt' = attempt + 1
            /\ UNCHANGED <<idx, pc, outcome>>
       ELSE IF idx < Len(fallback_chain)
       THEN /\ idx' = idx + 1
            /\ attempt' = 0
            /\ UNCHANGED <<pc, outcome>>
       ELSE /\ pc' = "raised"
            /\ outcome' = Raised(AllFailedError(e))
            /\ UNCHANGED <<idx, attempt>>
    /\ UNCHANGED <<fallback_models, model_name, max_retries, fallback_chain, chain_query>>

(* call_function(model=model) raises e: record it, then retry the model, move
   to the next model of the chain, or raise when the chain is exhausted *)
InvokeFails(e) ==
    /\ pc = "attempting"
    /\ calls' = Append(calls, [model |-> fallback_chain[idx], ok |-> FALSE,
                               result |-> None, error |-> e])
    /\ last_exception' = e
    /\ IF attempt + 1 < max_retries
       THEN /\ attempt' = attempt + 1
            /\ UNCHANGED <<idx, pc, outcome>>
       ELSE IF idx < Len(fallback_chain)
       THEN /\ idx' = idx + 1
            /\ attempt' = 0
            /\ UNCHANGED <<pc, outcome>>
       ELSE /\ pc' = "raised"
            /\ outcome' = Raised(AllFailedError(e))
            /\ UNCHANGED <<idx, attempt>>
    /\ UNCHANGED <<fallback_models, model_name, max_retries, fallback_chain, chain_query>>

InvokeStep == (\E res \in Results : InvokeSucceeds(res)) \/ (\E e \in Errors : InvokeFails(e))

----------------------------------------------------------------------------
(* tools/review_optimized.py : the decision aggregator *)

(* Scores are held in tenths (90 is 9.0); an average of two scores is held in
   twentieths, so that (quality + engagement) / 2 is exact. *)
Scores10 == {-10, 0, 55, 60, 70, 75, 79, 80, 90, 100, 120}

(* Python None in a score slot *)
NoneScore == -1000

(* Python None as the engagement_result argument *)
NoEngagement == [none |-> TRUE]

EmptyDict == <<>>

(* dict.get(k, default) *)
Get(d, k, default) == IF k \in DOMAIN d THEN d[k] ELSE default

(* truth value of an optional dict: None and {} are false *)
Truthy(d) == d # NoEngagement /\ DOMAIN d # {}

QualitySuggestions == {<<>>, <<"s1", "s2", "s3">>}
EngagementSuggestions == {<<>>, <<"s1", "s4", "s5">>}

(* parallel_review's result for a task that raised or returned invalid JSON *)
TaskErrorResult == [error |-> "failed"]

(* an evaluator's own JSON error answer *)
EvaluatorErrorResult == [success |-> FALSE, error |-> "failed"]

QualityResults ==
    {[score |-> sc, suggestions |-> g] : sc \in Scores10, g \in QualitySuggestions}
        \cup {TaskErrorResult, EvaluatorErrorResult}

EngagementResults ==
    {[score |-> sc, suggestions |-> g] : sc \in Scores10, g \in EngagementSuggestions}
        \cup {TaskErrorResult, EvaluatorErrorResult, EmptyDict, NoEngagement}

(* review_compliance: score = max(0, 10 - 2 * issue_count), risk_level by score,
   wrapped by create_success_response *)
ComplianceScore(issue_count) == IF 100 - issue_count * 20 > 0 THEN 100 - issue_count * 20 ELSE 0
RiskLevel(sc) == IF sc >= 80 THEN "low" ELSE IF sc >= 50 THEN "medium" ELSE "high"
ComplianceSuccess(issue_count) ==
    [success |-> TRUE, message |-> "compliance",
     data |-> [score |-> ComplianceScore(issue_count),
               risk_level |-> RiskLevel(ComplianceScore(issue_count)),
               issue_count |-> issue_count,
               suggestions |-> IF issue_count = 0 THEN <<"s0">> ELSE <<"s6">>]]

(* create_error_response: ToolResponse.to_dict leaves out 'data' when it is None *)
ComplianceError == [success |-> FALSE, message |-> "failed", error |-> "failed"]

ComplianceResults ==
    {ComplianceSuccess(n) : n \in {0, 1, 3}}
        \cup {ComplianceError, TaskErrorResult, EmptyDict}
        \cup {[data |-> [overall |-> [passed |-> b, score |-> sc]]] : b \in BOOLEAN, sc \in {40, 100}}
        \cup {[passed |-> b, score |-> sc] : b \in BOOLEAN, sc \in {40, 100}}
        \cup {[data |-> [passed |-> b, score |-> sc]] : b \in BOOLEAN, sc \in {40, 100}}
        \cup {[data |-> [overall |-> [score |-> 100]]], [score |-> 100]}

(* round(overall_score, 1) on the float average, in tenths.  An average with an
   odd number of twentieths lies between two tenths; which one Python's round
   returns depends on the binary value of the float.  For the scores of
   Scores10 these sums round upwards, the others downwards. *)
HalfRoundsUp == {55, 69, 75, 79, 115, 135, 139, 149, 155, 159, 175, 195}
Round1(n20) ==
    IF n20 % 2 = 0 THEN n20 \div 2
    ELSE IF n20 \in HalfRoundsUp THEN (n20 + 1) \div 2 ELSE (n20 - 1) \div 2

(* thresholds 8.0 and 6.0, in twentieths *)
PublishThreshold20 == 160
AskThreshold20 == 120

(* all_suggestions[:5] *)
MaxSuggestions == 5
Take(s, n) == SubSeq(s, 1, IF Len(s) < n THEN Len(s) ELSE n)

(* the decision with a score on a threshold falling below it *)
Decision_strictThresholds(compliance_passed, overall20) ==
    IF ~compliance_passed THEN "MUST_OPTIMIZE"
    ELSE IF overall20 > PublishThreshold20 THEN "PUBLISH"
    ELSE IF overall20 > AskThreshold20 THEN "ASK_USER"
    ELSE "RECOMMEND_OPTIMIZE"

(* the decision with the thresholds tested before the compliance veto *)
Decision_scoreFirst(compliance_passed, overall20) ==
    IF overall20 >= PublishThreshold20 THEN "PUBLISH"
    ELSE IF ~compliance_passed THEN "MUST_OPTIMIZE"
    ELSE IF overall20 >= AskThreshold20 THEN "ASK_USER"
    ELSE "RECOMMEND_OPTIMIZE"

(* the if/elif chain of _calculate_overall_score *)
Decision(compliance_passed, overall20) ==
    IF ~compliance_passed THEN "MUST_OPTIMIZE"
    ELSE IF overall20 >= PublishThreshold20 THEN "PUBLISH"
    ELSE IF overall20 >= AskThreshold20 THEN "ASK_USER"
    ELSE "RECOMMEND_OPTIMIZE"

(* an absent engagement score counted as 0 at full weight *)
overall_score20_absentAsZero(quality_score, engagement_score) ==
    IF engagement_score # NoneScore THEN quality_score + engagement_score ELSE quality_score + 0

(* lines 176-182: overall_score, in twentieths: the mean of quality and
   engagement, or the quality score alone *)
overall_score20(quality_score, engagement_score) ==
    IF engagement_score # NoneScore THEN quality_score + engagement_score ELSE 2 * quality_score

(* _calculate_overall_score; reason and action_text, fixed texts chosen by
   the decision, are left out of the returned dict *)
calculate_overall_score(quality_result, compliance_result, engagement_result) ==
    LET quality_score == Get(quality_result, "score", 0)
        has_data == "data" \in DOMAIN compliance_result
        compliance_passed ==
            IF has_data
            THEN Get(Get(compliance_result["data"], "overall", EmptyDict), "passed", FALSE)
            ELSE Get(compliance_result, "passed", TRUE)
        compliance_score ==
            IF has_data
            THEN Get(Get(compliance_result["data"], "overall", EmptyDict), "score", 0)
            ELSE Get(compliance_result, "score", 100)
        engagement_score ==
            IF Truthy(engagement_result) THEN Get(engagement_result, "score", 0) ELSE NoneScore
        overall20 == overall_score20(quality_score, engagement_score)
        all_suggestions ==
            Get(quality_result, "suggestions", <<>>)
                \o (IF Truthy(engagement_result)
                    THEN Get(engagement_result, "suggestions", <<>>) ELSE <<>>)
    IN  [score |-> Round1(overall20),
         overall20 |-> overall20,
         quality_score |-> quality_score,
         compliance_passed |-> compliance_passed,
         compliance_score |-> compliance_score,
         engagement_score |-> engagement_score,
         decision |-> Decision(compliance_passed, overall20),
         suggestions |-> Take(all_suggestions, MaxSuggestions)]

NoOverall == [decision |-> "none"]

AggInit ==
    /\ agg_in \in [quality : QualityResults, compliance : ComplianceResults,
                   engagement : EngagementResults]
    /\ agg_out = NoOverall

AggIdle ==
    /\ agg_in = [quality |-> EmptyDict, compliance |-> EmptyDict, engagement |-> NoEngagement]
    /\ agg_out = NoOverall

RouterIdle ==
    /\ fallback_models = [m \in Models |-> None]
    /\ pc = "idle"
    /\ model_name = None
    /\ max_retries = 0
    /\ fallback_chain = <<>>
    /\ idx = 0
    /\ attempt = 0
    /\ last_exception = NoException
    /\ calls = <<>>
    /\ outcome = NoOutcome
    /\ chain_query = NoQuery

(* one call of _calculate_overall_score on the drawn arguments *)
Aggregate ==
    /\ agg_out = NoOverall
    /\ agg_out' = calculate_overall_score(agg_in.quality, agg_in.compliance, agg_in.engagement)
    /\ UNCHANGED agg_in
----------------------------------------------------------------------------
(* utils/cache_manager.py : the two-tier cache store *)

(* Bounds *)
MaxMemoryItems == 1
MaxTime == 2
MaxOps == 4

(* CacheManager.__init__: default_ttl *)
DefaultTtl == 3600

(* Python None in CacheEntry.expires_at *)
NoExpiry == -1

(* Python None as the ttl argument *)
NoTtl == -1

CacheKeys == {"k1", "k2", "k3"}
CacheValues == {"v1", "v2"}
Ttls == {NoTtl, 0, 1}

(* is_expired taking a missing expires_at for a time *)
is_expired_noneIsTime(entry, t) == t > entry.expires_at

(* CacheEntry.is_expired *)
is_expired(entry, t) == entry.expires_at # NoExpiry /\ t > entry.expires_at

(* position of key in the dict, 0 when absent *)
MemIndex(mem, key) ==
    IF \E i \in 1..Len(mem) : mem[i].key = key
    THEN CHOOSE i \in 1..Len(mem) : mem[i].key = key
    ELSE 0

RECURSIVE KeepIdx(_, _, _)
KeepIdx(mem, i, keep) ==
    IF i > Len(mem) THEN <<>>
    ELSE (IF i \in keep THEN <<mem[i]>> ELSE <<>>) \o KeepIdx(mem, i + 1, keep)

(* self._memory_cache[key] = entry: an existing key keeps its position *)
DictSet(mem, entry) ==
    IF MemIndex(mem, entry.key) = 0
    THEN Append(mem, entry)
    ELSE [mem EXCEPT ![MemIndex(mem, entry.key)] = entry]

(* del self._memory_cache[key] *)
DictDel(mem, key) == KeepIdx(mem, 1, {i \in 1..Len(mem) : mem[i].key # key})

(* rank of item i in sorted(items, key=hit_count): the sort is stable *)
SortRank(mem, i) ==
    Cardinality({j \in 1..Len(mem) :
        \/ mem[j].hit_count < mem[i].hit_count
        \/ (mem[j].hit_count = mem[i].hit_count /\ j < i)})

(* _evict_if_needed removing the oldest entries whatever their hit counts *)
evict_if_needed_oldestFirst(mem) ==
    IF Len(mem) <= MaxMemoryItems THEN mem
    ELSE SubSeq(mem, Len(mem) - MaxMemoryItems + 1, Len(mem))

(* _evict_if_needed removing one entry too few *)
evict_if_needed_keepsOneMore(mem) ==
    IF Len(mem) <= MaxMemoryItems + 1 THEN mem
    ELSE KeepIdx(mem, 1, {i \in 1..Len(mem) : SortRank(mem, i) >= Len(mem) - MaxMemoryItems - 1})

(* CacheManager._evict_if_needed *)
evict_if_needed(mem) ==
    IF Len(mem) <= MaxMemoryItems THEN mem
    ELSE LET to_remove == Len(mem) - MaxMemoryItems IN
         KeepIdx(mem, 1, {i \in 1..Len(mem) : SortRank(mem, i) >= to_remove})

(* The durable tier.  _get_cache_path names the file by the MD5 of the key;
   the files of the modelled keys are distinct, so a file is addressed by its
   key.  A file holds the JSON text of entry.to_dict(), or is unreadable after
   a write that failed half way. *)
CorruptFile == [corrupt |-> TRUE]
FileExists(disk, key) == key \in DOMAIN disk
RemoveFile(disk, key) == [k \in DOMAIN disk \ {key} |-> disk[k]]
WriteFile(disk, key, content) == [k \in DOMAIN disk \cup {key} |-> IF k = key THEN content ELSE disk[k]]

(* outcome of the durable-tier calls of one operation *)
IoOk == [write |-> "ok", read |-> "ok", unlink |-> "ok"]

(* the ways the durable-tier calls of one operation can end: open(path, 'w')
   fails, json.dump fails after the file was truncated, open/json.load fails,
   unlink fails *)
WriteOutcomes == {"ok", "open_fails", "dump_fails"}
ReadOutcomes == {"ok", "fails"}
UnlinkOutcomes == {"ok", "fails"}

(* json.dump of a value: an object is written by content, not by reference *)
JsonDump(hp, value) == IF value \in DOMAIN hp THEN [object |-> hp[value]] ELSE [text |-> value]

(* names of the objects of the heap, in allocation order *)
ObjectIds == <<"o1", "o2", "o3", "o4", "o5", "o6", "o7", "o8">>
NewObject(hp) == ObjectIds[Cardinality(DOMAIN hp) + 1]
Alloc(hp, content) == [o \in DOMAIN hp \cup {NewObject(hp)} |-> IF o \in DOMAIN hp THEN hp[o] ELSE content]

(* set() that never writes the durable tier *)
save_disk_cache_skipped(disk, hp, entry, io) == disk

(* CacheManager._save_disk_cache: open(path, 'w') then json.dump(entry.to_dict());
   every exception is swallowed *)
save_disk_cache(disk, hp, entry, io) ==
    IF io.write = "ok"
    THEN WriteFile(disk, entry.key,
                   [key |-> entry.key, value |-> JsonDump(hp, entry.value),
                    created_at |-> entry.created_at, expires_at |-> entry.expires_at,
                    hit_count |-> entry.hit_count])
    ELSE IF io.write = "open_fails" THEN disk
    ELSE WriteFile(disk, entry.key, CorruptFile)

(* CacheManager._load_disk_cache: TRUE when a CacheEntry comes back *)
CanLoad(disk, key, io) ==
    FileExists(disk, key) /\ io.read = "ok" /\ disk[key] # CorruptFile

(* json.load + CacheEntry.from_dict: the heap after the load and the entry *)
LoadedHeap(disk, hp, key) ==
    IF "object" \in DOMAIN disk[key].value THEN Alloc(hp, disk[key].value.object) ELSE hp
LoadedEntry(disk, hp, key) ==
    [key |-> disk[key].key,
     value |-> IF "object" \in DOMAIN disk[key].value THEN NewObject(hp) ELSE disk[key].value.text,
     created_at |-> disk[key].created_at, expires_at |-> disk[key].expires_at,
     hit_count |-> disk[key].hit_count]

(* CacheManager._delete_disk_cache: the directory afterwards, and the return value *)
delete_disk_cache(disk, key, io) ==
    IF FileExists(disk, key) /\ io.unlink = "ok" THEN RemoveFile(disk, key) ELSE disk
delete_disk_cache_ret(disk, key, io) == FileExists(disk, key) /\ io.unlink = "ok"

(* get() forgetting the file of an entry it found expired in memory *)
purge_expired_memoryOnly(c, key, io) ==
    [c EXCEPT !.mem = DictDel(c.mem, key), !.stats.misses = @ + 1]

(* get(), lines 102-107: an expired entry found in memory *)
purge_expired(c, key, io) ==
    [c EXCEPT !.mem = DictDel(c.mem, key),
              !.disk = delete_disk_cache(c.disk, key, io),
              !.stats.misses = @ + 1]

(* get(), lines 124-131: an unexpired entry loaded from the durable tier *)
promote(c, key) ==
    LET entry == LoadedEntry(c.disk, c.heap, key)
        mem1 == evict_if_needed(DictSet(c.mem, entry))
        i == MemIndex(mem1, key)
    IN  [c EXCEPT !.heap = LoadedHeap(c.disk, c.heap, key),
                  !.mem = IF i = 0 THEN mem1 ELSE [mem1 EXCEPT ![i].hit_count = @ + 1],
                  !.stats.hits = @ + 1]

(* CacheManager.get on the cache c = [mem, disk, stats, heap] at time t:
   the cache afterwards, the value returned and the branch taken *)
cache_get(c, key, t, io) ==
    LET i == MemIndex(c.mem, key) IN
    IF i # 0
    THEN IF is_expired(c.mem[i], t)
         THEN [c |-> purge_expired(c, key, io), ret |-> None, path |-> "memory_expired"]
         ELSE [c |-> [c EXCEPT !.mem[i].hit_count = @ + 1, !.stats.hits = @ + 1],
               ret |-> c.mem[i].value, path |-> "memory"]
    ELSE IF CanLoad(c.disk, key, io)
    THEN IF is_expired(c.disk[key], t)
         THEN [c |-> [c EXCEPT !.disk = delete_disk_cache(c.disk, key, io),
                               !.stats.misses = @ + 1],
               ret |-> None, path |-> "disk_expired"]
         ELSE [c |-> promote(c, key),
               ret |-> LoadedEntry(c.disk, c.heap, key).value, path |-> "disk"]
    ELSE [c |-> [c EXCEPT !.stats.misses = @ + 1], ret |-> None, path |-> "miss"]

(* CacheManager.set on the cache c at time t *)
cache_set(c, key, value, ttl_arg, t, io) ==
    LET ttl == IF ttl_arg = NoTtl THEN DefaultTtl ELSE ttl_arg
        entry == [key |-> key, value |-> value, created_at |-> t,
                  expires_at |-> IF ttl > 0 THEN t + ttl ELSE NoExpiry,
                  hit_count |-> 0]
    IN  [c EXCEPT !.mem = evict_if_needed(DictSet(c.mem, entry)),
                  !.disk = save_disk_cache(c.disk, c.heap, entry, io),
                  !.stats.sets = @ + 1]

(* CacheManager.delete on the cache c: the cache afterwards and the return value *)
cache_delete(c, key, io) ==
    [c |-> [c EXCEPT !.mem = DictDel(c.mem, key),
                     !.disk = delete_disk_cache(c.disk, key, io)],
     ret |-> MemIndex(c.mem, key) # 0 \/ delete_disk_cache_ret(c.disk, key, io)]

(* CacheManager.clear: every *.json file of the directory is unlinked *)
cache_clear(c, io) ==
    [c EXCEPT !.mem = <<>>,
              !.disk = IF io.unlink = "ok" THEN <<>> ELSE c.disk]

(* CacheManager.cleanup_expired: expired memory entries, then expired files;
   an unreadable file is skipped *)
ExpiredFiles(c, t, io) ==
    {k \in DOMAIN c.disk :
        /\ io.read = "ok" /\ io.unlink = "ok"
        /\ c.disk[k] # CorruptFile
        /\ is_expired(c.disk[k], t)}
cache_cleanup_expired(c, t, io) ==
    LET expired_keys == {i \in 1..Len(c.mem) : is_expired(c.mem[i], t)} IN
    [c |-> [c EXCEPT !.mem = KeepIdx(c.mem, 1, (1..Len(c.mem)) \ expired_keys),
                     !.disk = [k \in DOMAIN c.disk \ ExpiredFiles(c, t, io) |-> c.disk[k]]],
     ret |-> Cardinality(expired_keys) + Cardinality(ExpiredFiles(c, t, io))]

(* the cache as one value, and its assignment to the variables *)
Cache == [mem |-> memory_cache, disk |-> disk_cache, stats |-> stats, heap |-> heap]
SetCache(c) ==
    /\ memory_cache' = c.mem
    /\ disk_cache' = c.disk
    /\ stats' = c.stats
    /\ heap' = c.heap

NoOp == [op |-> "none", key |-> None, ret |-> None, path |-> "none", at |-> 0]
NoSet == [value |-> None, expires_at |-> NoExpiry, ttl |-> NoTtl, removed |-> TRUE]
ZeroStats == [hits |-> 0, misses |-> 0, sets |-> 0]
Budget == ops < MaxOps

(* a new CacheManager on an empty cache directory *)
CacheInit ==
    /\ memory_cache = <<>>
    /\ disk_cache = <<>>
    /\ stats = ZeroStats
    /\ now = 0
    /\ heap = <<>>
    /\ last_op = NoOp
    /\ last_set = [k \in CacheKeys |-> NoSet]
    /\ ops = 0

CacheIdle == CacheInit

(* cache.get(key) *)
CacheGet(key, io) ==
    /\ Budget
    /\ ops' = ops + 1
    /\ LET r == cache_get(Cache, key, now, io) IN
       /\ SetCache(r.c)
       /\ last_op' = [op |-> "get", key |-> key, ret |-> r.ret, path |-> r.path, at |-> now]
    /\ UNCHANGED <<now, last_set>>

(* cache.set(key, value, ttl) *)
CacheSet(key, value, ttl, io) ==
    /\ Budget
    /\ ops' = ops + 1
    /\ SetCache(cache_set(Cache, key, value, ttl, now, io))
    /\ last_op' = [op |-> "set", key |-> key, ret |-> None, path |-> "none", at |-> now,
                   write |-> io.write]
    /\ last_set' = [last_set EXCEPT ![key] =
                       [value |-> value,
                        expires_at |-> now + (IF ttl = NoTtl THEN DefaultTtl ELSE ttl),
                        ttl |-> ttl, removed |-> FALSE]]
    /\ UNCHANGED now

(* cache.delete(key) *)
CacheDelete(key, io) ==
    /\ Budget
    /\ ops' = ops + 1
    /\ LET r == cache_delete(Cache, key, io) IN
       /\ SetCache(r.c)
       /\ last_op' = [op |-> "delete", key |-> key, ret |-> IF r.ret THEN "True" ELSE "False",
                      path |-> "none", at |-> now]
    /\ last_set' = [last_set EXCEPT ![key].removed = TRUE]
    /\ UNCHANGED now

(* cache.clear() *)
CacheClear(io) ==
    /\ Budget
    /\ ops' = ops + 1
    /\ SetCache(cache_clear(Cache, io))
    /\ last_op' = [op |-> "clear", key |-> None, ret |-> None, path |-> "none", at |-> now]
    /\ last_set' = [k \in CacheKeys |-> [last_set[k] EXCEPT !.removed = TRUE]]
    /\ UNCHANGED now

(* cache.cleanup_expired() *)
CacheCleanupExpired(io) ==
    /\ Budget
    /\ ops' = ops + 1
    /\ SetCache(cache_cleanup_expired(Cache, now, io).c)
    /\ last_op' = [op |-> "cleanup_expired", key |-> None, ret |-> None, path |-> "none", at |-> now]
    /\ UNCHANGED <<now, last_set>>

(* the process ends and a new CacheManager is opened on the same directory *)
CacheReopen ==
    /\ Budget
    /\ ops' = ops + 1
    /\ memory_cache' = <<>>
    /\ stats' = ZeroStats
    /\ last_op' = [op |-> "reopen", key |-> None, ret |-> None, path |-> "none", at |-> now]
    /\ UNCHANGED <<disk_cache, heap, now, last_set>>

(* more than default_ttl seconds pass at once *)
LongWait ==
    /\ now <= MaxTime
    /\ now' = now + DefaultTtl + 1
    /\ UNCHANGED <<memory_cache, disk_cache, stats, heap, last_op, last_set, ops>>

(* time passes *)
Tick ==
    /\ now < MaxTime
    /\ now' = now + 1
    /\ UNCHANGED <<memory_cache, disk_cache, stats, heap, last_op, last_set, ops>>

----------------------------------------------------------------------------
(* tools/review_optimized.py : the memoized review pipeline *)

(* Bound: review calls and restarts made in one behaviour *)
MaxReviewCalls == 3

(* A string is a sequence of atoms: a separator is an atom of its own, any
   other atom stands for text without separators. *)
RECURSIVE StrJoin(_, _)
StrJoin(parts, sep) ==
    IF parts = <<>> THEN <<>>
    ELSE IF Len(parts) = 1 THEN parts[1]
    ELSE parts[1] \o sep \o StrJoin(Tail(parts), sep)

(* str() of a bool *)
StrBool(b) == IF b THEN <<"True">> ELSE <<"False">>

(* the keyword names in sorted order, for sorted(kwargs.items()) *)
KeywordOrder == <<"engagement", "limit", "sort">>
RECURSIVE KwParts(_, _)
KwParts(kwargs, i) ==
    IF i > Len(KeywordOrder) THEN <<>>
    ELSE (IF KeywordOrder[i] \in DOMAIN kwargs
          THEN << <<KeywordOrder[i], "=">> \o kwargs[KeywordOrder[i]] >>
          ELSE <<>>) \o KwParts(kwargs, i + 1)

(* cache_key: args is the sequence of positional arguments as strings, kwargs
   maps keyword names to strings *)
cache_key(args, kwargs) ==
    StrJoin(args \o (IF DOMAIN kwargs # {} THEN <<StrJoin(KwParts(kwargs, 1), <<":">>)>> ELSE <<>>),
            <<":">>)

ContentData ==
    {[title |-> <<"a">>, content |-> <<"b">>],
     [title |-> <<"a">>, content |-> <<"c">>]}

(* two requests whose titles and contents differ by where a line break sits *)
SplitContentData ==
    {[title |-> <<"a">>, content |-> <<"\n", "b">>],
     [title |-> <<"a", "\n">>, content |-> <<"b">>]}

(* _hash_content: the first 16 hex digits of the MD5 of title + "\n" + content;
   distinct texts of the model get distinct digests *)
KeyContent(content_data) == content_data.title \o <<"\n">> \o content_data.content
HexDigests == {"h1", "h2", "h3", "h4"}
Md5Hex16 ==
    CHOOSE f \in [{KeyContent(cd) : cd \in ContentData \cup SplitContentData} -> HexDigests] :
        \A x, y \in DOMAIN f : f[x] = f[y] => x = y
hash_content(content_data) == <<Md5Hex16[KeyContent(content_data)]>>

(* lines 62-68: the key of a review *)
review_key(content_data, enable_engagement) ==
    cache_key(<< <<"review">>, hash_content(content_data) >>,
              [engagement |-> StrBool(enable_engagement)])

(* what parallel_review can hand back for (quality, compliance, engagement) *)
EvalOutcomes ==
    {[quality |-> [score |-> 90, suggestions |-> <<"s1", "s2", "s3">>],
      compliance |-> ComplianceSuccess(0),
      engagement |-> [score |-> 90, suggestions |-> <<"s1", "s4", "s5">>]],
     [quality |-> [score |-> 70, suggestions |-> <<>>],
      compliance |-> ComplianceError,
      engagement |-> TaskErrorResult]}

ReviewTtls == {1, 3600}

(* lines 86-116: the result dict built on a miss; elapsed_time, a wall-clock
   measurement, is left out *)
final_result(results, enable_engagement) ==
    LET quality_result == results.quality
        compliance_result == results.compliance
        engagement_result == IF enable_engagement THEN results.engagement ELSE NoEngagement
        base == [quality |-> quality_result,
                 compliance |-> compliance_result,
                 overall |-> calculate_overall_score(quality_result, compliance_result,
                                                     engagement_result),
                 performance |-> [from_cache |-> FALSE, parallel_execution |-> TRUE,
                                  tasks_count |-> IF enable_engagement THEN 3 ELSE 2]]
    IN  IF Truthy(engagement_result)
        THEN [k \in DOMAIN base \cup {"engagement"} |->
                 IF k = "engagement" THEN engagement_result ELSE base[k]]
        ELSE base

(* the pipeline never storing its result *)
store_result_never(c, use_cache, key, ref, cache_ttl, t, io) == c

(* lines 118-121: cache the result *)
store_result(c, use_cache, key, ref, cache_ttl, t, io) ==
    IF use_cache THEN cache_set(c, key, ref, cache_ttl, t, io) ELSE c

(* lines 70-72: the lookup *)
lookup(c, use_cache, key, t, io) ==
    IF use_cache THEN cache_get(c, key, t, io)
    ELSE [c |-> c, ret |-> None, path |-> "none"]

(* review_content_optimized on the cache c at time t, results being what
   parallel_review returns if it is run: the cache afterwards, the object
   returned and whether the evaluators ran *)
review_content_optimized(c, content_data, enable_engagement, use_cache, cache_ttl, results, t, io) ==
    LET key == review_key(content_data, enable_engagement)
        found == lookup(c, use_cache, key, t, io)
    IN  IF found.ret # None
        THEN [c |-> [found.c EXCEPT !.heap[found.ret].performance.from_cache = TRUE],
              ret |-> found.ret, ran |-> FALSE, path |-> found.path]
        ELSE LET ref == NewObject(found.c.heap)
                 c1 == [found.c EXCEPT
                           !.heap = Alloc(found.c.heap, final_result(results, enable_engagement))]
             IN  [c |-> store_result(c1, use_cache, key, ref, cache_ttl, t, io),
                  ret |-> ref, ran |-> TRUE, path |-> found.path]

NoCall == [called |-> FALSE]

ReviewInit ==
    /\ prev_call = NoCall
    /\ last_call = NoCall

ReviewIdle == ReviewInit

(* a caller runs review_content_optimized(content_data, enable_engagement,
   use_cache, cache_ttl) *)
ReviewCall(content_data, enable_engagement, use_cache, cache_ttl, results, io) ==
    /\ ops < MaxReviewCalls
    /\ ops' = ops + 1
    /\ LET r == review_content_optimized(Cache, content_data, enable_engagement, use_cache,
                                         cache_ttl, results, now, io)
       IN  /\ SetCache(r.c)
           /\ last_call' = [called |-> TRUE, content_data |-> content_data,
                            enable_engagement |-> enable_engagement,
                            use_cache |-> use_cache, cache_ttl |-> cache_ttl,
                            at |-> now, ran |-> r.ran, path |-> r.path, ret |-> r.ret,
                            result |-> r.c.heap[r.ret]]
           /\ last_op' = [op |-> "review", key |-> None, ret |-> r.ret, path |-> r.path, at |-> now]
    /\ prev_call' = last_call
    /\ UNCHANGED <<now, last_set>>

(* str.startswith on a string of atoms *)
StartsWith(text, prefix) ==
    Len(text) >= Len(prefix) /\ SubSeq(text, 1, Len(prefix)) = prefix

(* the keys clear_review_cache walks: list(cache_manager._memory_cache.keys()) *)
ReviewKeysInMemory(mem) ==
    {mem[i].key : i \in {j \in 1..Len(mem) : StartsWith(mem[j].key, <<"review", ":">>)}}

(* cache_manager.delete(key) for every key of keys, in any order: the deletes
   of different keys do not touch each other *)
RECURSIVE delete_all(_, _, _)
delete_all(c, keys, io) ==
    IF keys = {} THEN c
    ELSE LET key == CHOOSE k \in keys : TRUE
         IN  delete_all(cache_delete(c, key, io).c, keys \ {key}, io)

(* clear_review_cache(): the cache afterwards and the count returned *)
clear_review_cache(c, io) ==
    [c |-> delete_all(c, ReviewKeysInMemory(c.mem), io),
     ret |-> Cardinality(ReviewKeysInMemory(c.mem))]

(* a caller runs clear_review_cache() *)
ClearReviewCache(io) ==
    /\ last_op.op # "clear_review"
    /\ LET r == clear_review_cache(Cache, io) IN
       /\ SetCache(r.c)
       /\ last_op' = [op |-> "clear_review", key |-> None, ret |-> r.ret, path |-> "none",
                      at |-> now, files |-> DOMAIN disk_cache]
    /\ UNCHANGED <<now, last_set, ops, prev_call, last_call>>

(* the process ends; the next call builds a new global CacheManager *)
ReviewRestart ==
    /\ ops < MaxReviewCalls
    /\ ops' = ops + 1
    /\ last_op.op # "reopen"
    /\ memory_cache' = <<>>
    /\ stats' = ZeroStats
    /\ last_op' = [op |-> "reopen", key |-> None, ret |-> None, path |-> "none", at |-> now]
    /\ UNCHANGED <<disk_cache, heap, now, last_set, prev_call, last_call>>

----------------------------------------------------------------------------
(* utils/parallel_executor.py : ParallelExecutor *)

(* Bound: tasks in a batch *)
MaxTasks == 3

TaskNames == <<"quality", "compliance", "engagement">>
Batches == {SubSeq(TaskNames, 1, n) : n \in 0..MaxTasks}
Workers == 1..MaxTasks

(* what the call of task.func can do *)
Bodies ==
    {[kind |-> "returned", value |-> v, error |-> NoException] : v \in Results}
    \cup {[kind |-> "raised", value |-> None, error |-> e] : e \in Errors}
NoBody == [kind |-> "none", value |-> None, error |-> NoException]
NoTaskResult == [name |-> None, success |-> FALSE, result |-> None, error |-> NoException]

(* _execute_single_task reporting a raising body as a success *)
execute_single_task_swallows(name, body) ==
    [name |-> name, success |-> TRUE, result |-> body.value, error |-> NoException]

(* _execute_single_task: the try/except around task.func; elapsed_time left out *)
execute_single_task(name, body) ==
    IF body.kind = "returned"
    THEN [name |-> name, success |-> TRUE, result |-> body.value, error |-> NoException]
    ELSE [name |-> name, success |-> FALSE, result |-> None, error |-> body.error]

TaskSet == {ex_tasks[i] : i \in 1..Len(ex_tasks)}
Running == {t \in TaskSet : ex_state[t] = "running"}
AllDone == \A t \in TaskSet : ex_state[t] = "done"

ExecInit ==
    /\ ex_pc = "idle"
    /\ ex_tasks = <<>>
    /\ ex_timeout = FALSE
    /\ max_workers = 1
    /\ ex_state = <<>>
    /\ ex_body = <<>>
    /\ ex_future = <<>>
    /\ ex_results = <<>>
    /\ ex_timed_out = FALSE

ExecIdle == ExecInit

(* lines 79-93: ParallelExecutor(max_workers).execute_tasks(tasks, timeout):
   an empty batch returns {} at once, otherwise every task is submitted *)
ExecuteTasks(tasks, timeout, workers) ==
    /\ ex_pc = "idle"
    /\ ex_tasks' = tasks
    /\ ex_timeout' = timeout
    /\ max_workers' = workers
    /\ ex_state' = [t \in {tasks[i] : i \in 1..Len(tasks)} |-> "queued"]
    /\ ex_pc' = IF tasks = <<>> THEN "returned" ELSE "collecting"
    /\ UNCHANGED <<ex_body, ex_future, ex_results, ex_timed_out>>

(* a worker thread takes the oldest queued work item *)
TaskStart(t) ==
    /\ ex_pc \in {"collecting", "exiting"}
    /\ t \in TaskSet
    /\ ex_state[t] = "queued"
    /\ \A i, j \in 1..Len(ex_tasks) :
          (ex_tasks[j] = t /\ i < j) => ex_state[ex_tasks[i]] # "queued"
    /\ Cardinality(Running) < max_workers
    /\ ex_state' = [ex_state EXCEPT ![t] = "running"]
    /\ UNCHANGED <<ex_pc, ex_tasks, ex_timeout, max_workers, ex_body, ex_future,
                   ex_results, ex_timed_out>>

(* lines 125-160: the body of a running task ends and _execute_single_task
   hands its TaskResult to the future *)
TaskFinish(t, body) ==
    /\ ex_pc \in {"collecting", "exiting"}
    /\ t \in TaskSet
    /\ ex_state[t] = "running"
    /\ ex_state' = [ex_state EXCEPT ![t] = "done"]
    /\ ex_body' = (t :> body) @@ ex_body
    /\ ex_future' = (t :> execute_single_task(t, body)) @@ ex_future
    /\ UNCHANGED <<ex_pc, ex_tasks, ex_timeout, max_workers, ex_results, ex_timed_out>>

(* lines 96-100: as_completed yields a finished future and the caller stores
   future.result(); the future never holds an exception, _execute_single_task
   having caught it *)
Collect(t) ==
    /\ ex_pc = "collecting"
    /\ t \in TaskSet
    /\ ex_state[t] = "done"
    /\ t \notin DOMAIN ex_results
    /\ ex_results' = (t :> ex_future[t]) @@ ex_results
    /\ UNCHANGED <<ex_pc, ex_tasks, ex_timeout, max_workers, ex_state, ex_body, ex_future,
                   ex_timed_out>>

(* line 96: the timeout elapses while a future is unfinished: as_completed
   raises TimeoutError, which leaves the for loop and reaches the end of the
   with block *)
TimeoutElapses ==
    /\ ex_pc = "collecting"
    /\ ex_timeout
    /\ ~AllDone
    /\ ex_timed_out' = TRUE
    /\ ex_pc' = "exiting"
    /\ UNCHANGED <<ex_tasks, ex_timeout, max_workers, ex_state, ex_body, ex_future, ex_results>>

(* lines 88, 114-123: the with block ends: ThreadPoolExecutor.__exit__ is
   shutdown(wait=True), which joins the workers, so it ends when every
   submitted task is done; then results is returned, or the TimeoutError goes
   on to the caller *)
LeavePool ==
    /\ \/ ex_pc = "collecting" /\ DOMAIN ex_results = TaskSet
       \/ ex_pc = "exiting"
    /\ AllDone
    /\ ex_pc' = IF ex_timed_out THEN "raised" ELSE "returned"
    /\ UNCHANGED <<ex_tasks, ex_timeout, max_workers, ex_state, ex_body, ex_future,
                   ex_results, ex_timed_out>>

----------------------------------------------------------------------------
(* utils/cache_manager.py : cache_key as a function of the call's arguments *)

(* Bound: positional arguments of a call *)
MaxArgs == 2

(* str(arg) of the positional arguments a call can pass *)
ArgStrings == {<<"a">>, <<"b">>, <<"a", ":", "b">>, <<"limit", "=", "5">>}
ArgLists == UNION {[1..n -> ArgStrings] : n \in 0..MaxArgs}

(* the keyword arguments of a call, in the order the caller wrote them *)
KwLists ==
    {<<>>, << <<"limit", <<"5">> >> >>, << <<"sort", <<"a">> >> >>,
     << <<"limit", <<"5">> >>, <<"sort", <<"a">> >> >>,
     << <<"sort", <<"a">> >>, <<"limit", <<"5">> >> >>}

KeyCalls == [args : ArgLists, kwargs : KwLists]

(* the dict kwargs that Python builds from the keywords of the call *)
Kwargs(kwlist) ==
    [k \in {kwlist[i][1] : i \in 1..Len(kwlist)} |->
        (CHOOSE p \in {kwlist[i] : i \in 1..Len(kwlist)} : p[1] = k)[2]]

KeyInit ==
    /\ key_in \in KeyCalls \X KeyCalls
    /\ key_out = <<>>

KeyIdle ==
    /\ key_in = <<>>
    /\ key_out = <<>>

(* both calls are made *)
ComputeKeys ==
    /\ key_out = <<>>
    /\ key_out' = <<cache_key(key_in[1].args, Kwargs(key_in[1].kwargs)),
                    cache_key(key_in[2].args, Kwargs(key_in[2].kwargs))>>
    /\ UNCHANGED key_in

----------------------------------------------------------------------------
(* utils/parallel_executor.py : parallel_review under review_content_optimized *)

(* the JSON text an evaluator returns: the text of a dict, or text that does
   not parse *)
Json(d) == [json |-> d]
InvalidJson == [text |-> "not json"]

(* what each evaluator function can do *)
EvaluatorBodies(dicts) ==
    {[kind |-> "returned", value |-> Json(d), error |-> NoException] : d \in dicts}
    \cup {[kind |-> "returned", value |-> InvalidJson, error |-> NoException]}
    \cup {[kind |-> "raised", value |-> None, error |-> e] : e \in Errors}
QualityBodies ==
    EvaluatorBodies({[score |-> 90, suggestions |-> <<"s1", "s2", "s3">>],
                     [score |-> 70, suggestions |-> <<>>], EvaluatorErrorResult})
ComplianceBodies ==
    EvaluatorBodies({ComplianceSuccess(0), ComplianceSuccess(3), ComplianceError})
EngagementBodies ==
    EvaluatorBodies({[score |-> 90, suggestions |-> <<"s1", "s4", "s5">>], EvaluatorErrorResult})

(* lines 221-231: the dict parallel_review stores for one TaskResult *)
parse_task_result(task_result) ==
    IF task_result.success
    THEN IF "json" \in DOMAIN task_result.result
         THEN task_result.result.json
         ELSE [error |-> <<"JSONDecodeError">>]
    ELSE [error |-> str(task_result.error)]

(* lines 191-233: parallel_review: the tasks of the mode are run by
   execute_tasks without a timeout and every TaskResult is parsed *)
parallel_review(bodies, enable_engagement) ==
    [name \in (IF enable_engagement THEN {"quality", "compliance", "engagement"}
               ELSE {"quality", "compliance"}) |->
        parse_task_result(execute_single_task(name, bodies[name]))]

EmptyCache == [mem |-> <<>>, disk |-> <<>>, stats |-> ZeroStats, heap |-> <<>>]

PipeInit ==
    /\ pipe_in \in [quality : QualityBodies, compliance : ComplianceBodies,
                    engagement : EngagementBodies, enable_engagement : BOOLEAN]
    /\ pipe_out = NoCall

PipeIdle ==
    /\ pipe_in = <<>>
    /\ pipe_out = NoCall

(* review_content_optimized(content_data, enable_engagement, use_cache=False)
   with evaluators that behave as drawn *)
RunPipeline(content_data) ==
    /\ pipe_out = NoCall
    /\ LET r == review_content_optimized(EmptyCache, content_data, pipe_in.enable_engagement,
                                         FALSE, DefaultTtl,
                                         parallel_review(pipe_in, pipe_in.enable_engagement),
                                         0, IoOk)
       IN  pipe_out' = [called |-> TRUE, content_data |-> content_data,
                        result |-> r.c.heap[r.ret]]
    /\ UNCHANGED pipe_in

----------------------------------------------------------------------------
(* utils/cache_manager.py : get and set called from several threads on the
   one CacheManager get_cache_manager() hands out.  The class takes no lock,
   so a thread switch can fall between any two statements, and inside an
   augmented assignment between its read and its write. *)

(* Bound: threads calling the cache manager at once *)
MaxThreads == 3
ThreadIds == 1..MaxThreads

NoFrame == [op |-> "none", pc |-> "idle", key |-> None, value |-> None, entry |-> <<>>,
            items |-> <<>>, tmp |-> 0, ret |-> None]
ThreadsIdle == threads = <<>>

(* the cache at its capacity: one set was made on a new CacheManager *)
CacheAtCapacity == cache_set(EmptyCache, "k1", "v1", NoTtl, 0, IoOk)

(* every thread is about to call get(key) or set(key, "v2") *)
ThreadsInit(op) ==
    /\ memory_cache = CacheAtCapacity.mem
    /\ disk_cache = CacheAtCapacity.disk
    /\ stats = ZeroStats
    /\ now = 0
    /\ heap = <<>>
    /\ last_op = NoOp
    /\ last_set = [k \in CacheKeys |-> NoSet]
    /\ ops = 0
    /\ threads \in [ThreadIds -> {[NoFrame EXCEPT !.op = op, !.pc = "start", !.key = k,
                                                   !.value = IF op = "set" THEN "v2" ELSE None] :
                                      k \in (IF op = "set" THEN CacheKeys ELSE {"k1", "k2"})}]

Frame(t) == threads[t]
Goto(t, label) == threads' = [threads EXCEPT ![t].pc = label]
CacheUntouched == UNCHANGED <<now, heap, last_op, last_set, ops>>

(* get, lines 98-110: the lookup.  On an unexpired memory entry the thread goes
   on to the two increments; the other paths are taken in one step *)
GetLookup(t) ==
    /\ Frame(t).op = "get" /\ Frame(t).pc = "start"
    /\ LET i == MemIndex(memory_cache, Frame(t).key) IN
       IF i # 0 /\ ~is_expired(memory_cache[i], now)
       THEN /\ threads' = [threads EXCEPT ![t].pc = "hit_read", ![t].entry = memory_cache[i]]
            /\ UNCHANGED <<memory_cache, disk_cache, stats>>
       ELSE LET r == cache_get(Cache, Frame(t).key, now, IoOk) IN
            /\ memory_cache' = r.c.mem
            /\ disk_cache' = r.c.disk
            /\ stats' = r.c.stats
            /\ threads' = [threads EXCEPT ![t].pc = "done", ![t].ret = r.ret]
    /\ CacheUntouched

(* entry.hit_count += 1, line 110: the read *)
HitRead(t) ==
    /\ Frame(t).pc = "hit_read"
    /\ threads' = [threads EXCEPT ![t].pc = "hit_write",
                       ![t].tmp = memory_cache[MemIndex(memory_cache, Frame(t).key)].hit_count]
    /\ UNCHANGED <<memory_cache, disk_cache, stats>>
    /\ CacheUntouched

(* entry.hit_count += 1, line 110: the write *)
HitWrite(t) ==
    /\ Frame(t).pc = "hit_write"
    /\ memory_cache' = [memory_cache EXCEPT
                            ![MemIndex(memory_cache, Frame(t).key)].hit_count = Frame(t).tmp + 1]
    /\ Goto(t, "stats_read")
    /\ UNCHANGED <<disk_cache, stats>>
    /\ CacheUntouched

(* the counter a call increments last: stats["hits"] in get, stats["sets"] in set *)
Counter(t) == IF Frame(t).op = "get" THEN "hits" ELSE "sets"

(* self.stats[...] += 1, lines 111 and 172: the read *)
StatsRead(t) ==
    /\ Frame(t).pc = "stats_read"
    /\ threads' = [threads EXCEPT ![t].pc = "stats_write", ![t].tmp = stats[Counter(t)]]
    /\ UNCHANGED <<memory_cache, disk_cache, stats>>
    /\ CacheUntouched

(* self.stats[...] += 1: the write, and the return *)
StatsWrite(t) ==
    /\ Frame(t).pc = "stats_write"
    /\ stats' = [stats EXCEPT ![Counter(t)] = Frame(t).tmp + 1]
    /\ threads' = [threads EXCEPT ![t].pc = "done",
                       ![t].ret = IF Frame(t).op = "get" THEN Frame(t).entry.value ELSE None]
    /\ UNCHANGED <<memory_cache, disk_cache>>
    /\ CacheUntouched

(* set, lines 152-166: the entry is built and put in the map *)
SetInsert(t) ==
    /\ Frame(t).op = "set" /\ Frame(t).pc = "start"
    /\ LET entry == [key |-> Frame(t).key, value |-> Frame(t).value, created_at |-> now,
                     expires_at |-> now + DefaultTtl, hit_count |-> 0] IN
       /\ memory_cache' = DictSet(memory_cache, entry)
       /\ threads' = [threads EXCEPT ![t].pc = "evict_check", ![t].entry = entry]
    /\ UNCHANGED <<disk_cache, stats>>
    /\ CacheUntouched

(* _evict_if_needed, lines 269-270: the size test *)
EvictCheck(t) ==
    /\ Frame(t).pc = "evict_check"
    /\ Goto(t, IF Len(memory_cache) <= MaxMemoryItems THEN "save" ELSE "evict_sort")
    /\ UNCHANGED <<memory_cache, disk_cache, stats>>
    /\ CacheUntouched

(* the keys of sorted(self._memory_cache.items(), key=hit_count) *)
SortedKeys(mem) ==
    [r \in 1..Len(mem) |-> mem[CHOOSE i \in 1..Len(mem) : SortRank(mem, i) = r - 1].key]

(* s[:n] of Python: a negative n counts from the end *)
PySlice(s, n) ==
    IF n >= 0
    THEN SubSeq(s, 1, IF n < Len(s) THEN n ELSE Len(s))
    ELSE SubSeq(s, 1, IF Len(s) + n > 0 THEN Len(s) + n ELSE 0)

(* lines 273-276: items is a sorted copy of the map as it is now *)
EvictSort(t) ==
    /\ Frame(t).pc = "evict_sort"
    /\ threads' = [threads EXCEPT ![t].pc = "evict_count", ![t].items = SortedKeys(memory_cache)]
    /\ UNCHANGED <<memory_cache, disk_cache, stats>>
    /\ CacheUntouched

(* lines 278-279: to_remove is computed from the size the map has now, and the
   loop is over items[:to_remove] *)
EvictCount(t) ==
    /\ Frame(t).pc = "evict_count"
    /\ threads' = [threads EXCEPT ![t].pc = "evict_del",
                       ![t].items = PySlice(Frame(t).items, Len(memory_cache) - MaxMemoryItems)]
    /\ UNCHANGED <<memory_cache, disk_cache, stats>>
    /\ CacheUntouched

(* lines 279-280: one iteration of the loop; del raises KeyError on a key that
   is no longer in the map, and the error leaves set *)
EvictDel(t) ==
    /\ Frame(t).pc = "evict_del"
    /\ IF Frame(t).items = <<>>
       THEN Goto(t, "save") /\ UNCHANGED memory_cache
       ELSE IF MemIndex(memory_cache, Head(Frame(t).items)) # 0
       THEN /\ memory_cache' = DictDel(memory_cache, Head(Frame(t).items))
            /\ threads' = [threads EXCEPT ![t].items = Tail(Frame(t).items)]
       ELSE Goto(t, "raised") /\ UNCHANGED memory_cache
    /\ UNCHANGED <<disk_cache, stats>>
    /\ CacheUntouched

(* set, line 170: self._save_disk_cache(entry) *)
SaveDisk(t) ==
    /\ Frame(t).pc = "save"
    /\ disk_cache' = save_disk_cache(disk_cache, heap, Frame(t).entry, IoOk)
    /\ Goto(t, "stats_read")
    /\ UNCHANGED <<memory_cache, stats>>
    /\ CacheUntouched

----------------------------------------------------------------------------
(* Specifications *)

RouterNext ==
    \/ \E m \in Models, r \in 0..MaxRetries : CallWithFallback(m, r) /\ UNCHANGED notRouter
    \/ \E res \in Results : InvokeSucceeds(res) /\ UNCHANGED notRouter
    \/ \E e \in Errors : InvokeFails(e) /\ UNCHANGED notRouter

ChainNext ==
    \E m \in Models, d \in 0..MaxDepth : GetFallbackChain(m, d) /\ UNCHANGED notRouter

(* call_with_fallback over every fallback map; call_function always returns
   or raises, so every started attempt completes *)
InitRouter == RouterInit /\ AggIdle /\ CacheIdle /\ ReviewIdle /\ ExecIdle /\ KeyIdle /\ PipeIdle /\ ThreadsIdle
SpecRouter == InitRouter /\ [][RouterNext]_vars /\ WF_vars(InvokeStep /\ UNCHANGED notRouter)

(* get_fallback_chain over every fallback map, start model and depth *)
SpecChain == InitRouter /\ [][ChainNext]_vars

(* The router as constructed from the shipped configuration: chains are
   queried and calls are made for every described model *)
ConfiguredNext ==
    \/ \E m \in DOMAIN MODEL_INFO, d \in 0..MaxDepth : GetFallbackChain(m, d) /\ UNCHANGED notRouter
    \/ \E m \in DOMAIN MODEL_INFO, r \in 0..MaxRetries : CallWithFallback(m, r) /\ UNCHANGED notRouter
    \/ \E res \in Results : InvokeSucceeds(res) /\ UNCHANGED notRouter
    \/ \E e \in Errors : InvokeFails(e) /\ UNCHANGED notRouter

InitConfigured == ConfiguredInit /\ AggIdle /\ CacheIdle /\ ReviewIdle /\ ExecIdle /\ KeyIdle /\ PipeIdle /\ ThreadsIdle
SpecConfigured == InitConfigured /\ [][ConfiguredNext]_vars

AggregatorNext == Aggregate /\ UNCHANGED notAggregator

(* _calculate_overall_score applied to every combination of evaluator results *)
InitAggregator == AggInit /\ RouterIdle /\ CacheIdle /\ ReviewIdle /\ ExecIdle /\ KeyIdle /\ PipeIdle /\ ThreadsIdle
SpecAggregator == InitAggregator /\ [][AggregatorNext]_vars

CacheNext ==
    \/ \E k \in CacheKeys : CacheGet(k, IoOk) /\ UNCHANGED notCache
    \/ \E k \in CacheKeys, v \in CacheValues, ttl \in Ttls :
          CacheSet(k, v, ttl, IoOk) /\ UNCHANGED notCache
    \/ \E k \in CacheKeys : CacheDelete(k, IoOk) /\ UNCHANGED notCache
    \/ CacheClear(IoOk) /\ UNCHANGED notCache
    \/ CacheCleanupExpired(IoOk) /\ UNCHANGED notCache
    \/ CacheReopen /\ UNCHANGED notCache
    \/ Tick /\ UNCHANGED notCache

(* one CacheManager at a time on one cache directory whose I/O succeeds *)
InitCache == CacheInit /\ RouterIdle /\ AggIdle /\ ReviewIdle /\ ExecIdle /\ KeyIdle /\ PipeIdle /\ ThreadsIdle
SpecCache == InitCache /\ [][CacheNext]_vars

ReviewNext ==
    \/ \E cd \in ContentData, ee \in BOOLEAN, ttl \in ReviewTtls, results \in EvalOutcomes :
          ReviewCall(cd, ee, TRUE, ttl, results, IoOk) /\ UNCHANGED notReview
    \/ \E cd \in ContentData, ee \in BOOLEAN, results \in EvalOutcomes :
          ReviewCall(cd, ee, FALSE, DefaultTtl, results, IoOk) /\ UNCHANGED notReview
    \/ ReviewRestart /\ UNCHANGED notReview
    \/ Tick /\ UNCHANGED <<reviewVars, notReview>>

(* review_content_optimized on the global cache manager, durable I/O working *)
InitReview == CacheInit /\ ReviewInit /\ RouterIdle /\ AggIdle /\ ExecIdle /\ KeyIdle /\ PipeIdle /\ ThreadsIdle
SpecReview == InitReview /\ [][ReviewNext]_vars

ReviewOpsNext ==
    \/ \E cd \in ContentData \cup SplitContentData, ee \in BOOLEAN, results \in EvalOutcomes :
          ReviewCall(cd, ee, TRUE, DefaultTtl, results, IoOk) /\ UNCHANGED notReview
    \/ ReviewRestart /\ UNCHANGED notReview
    \/ ClearReviewCache(IoOk) /\ UNCHANGED notReview

(* cached reviews of requests with close texts, with clear_review_cache *)
SpecReviewOps == InitReview /\ [][ReviewOpsNext]_vars

ExecutorNext ==
    \/ \E tasks \in Batches, timeout \in BOOLEAN, workers \in Workers :
          ExecuteTasks(tasks, timeout, workers) /\ UNCHANGED notExecutor
    \/ \E t \in TaskSet : TaskStart(t) /\ UNCHANGED notExecutor
    \/ \E t \in TaskSet, body \in Bodies : TaskFinish(t, body) /\ UNCHANGED notExecutor
    \/ \E t \in TaskSet : Collect(t) /\ UNCHANGED notExecutor
    \/ TimeoutElapses /\ UNCHANGED notExecutor
    \/ LeavePool /\ UNCHANGED notExecutor

(* execute_tasks with its worker threads; the thread of the caller goes on
   whenever it can, a task body may run for ever *)
InitExecutor == ExecInit /\ RouterIdle /\ AggIdle /\ CacheIdle /\ ReviewIdle /\ KeyIdle /\ PipeIdle /\ ThreadsIdle
SpecExecutor == InitExecutor /\ [][ExecutorNext]_vars /\ WF_vars(LeavePool /\ UNCHANGED notExecutor)

KeyNext == ComputeKeys /\ UNCHANGED notKey

(* cache_key applied to two argument lists *)
InitKey == KeyInit /\ RouterIdle /\ AggIdle /\ CacheIdle /\ ReviewIdle /\ ExecIdle /\ PipeIdle /\ ThreadsIdle
SpecKey == InitKey /\ [][KeyNext]_vars

PipeNext == \E cd \in ContentData : RunPipeline(cd) /\ UNCHANGED notPipe

(* one uncached review with evaluators that succeed, fail or answer garbage *)
InitPipe == PipeInit /\ RouterIdle /\ AggIdle /\ CacheIdle /\ ReviewIdle /\ ExecIdle /\ KeyIdle /\ ThreadsIdle
SpecPipe == InitPipe /\ [][PipeNext]_vars

ConcurrentGetNext ==
    \E t \in ThreadIds :
        \/ GetLookup(t) /\ UNCHANGED notThreads
        \/ HitRead(t) /\ UNCHANGED notThreads
        \/ HitWrite(t) /\ UNCHANGED notThreads
        \/ StatsRead(t) /\ UNCHANGED notThreads
        \/ StatsWrite(t) /\ UNCHANGED notThreads

ConcurrentSetNext ==
    \E t \in ThreadIds :
        \/ SetInsert(t) /\ UNCHANGED notThreads
        \/ EvictCheck(t) /\ UNCHANGED notThreads
        \/ EvictSort(t) /\ UNCHANGED notThreads
        \/ EvictCount(t) /\ UNCHANGED notThreads
        \/ EvictDel(t) /\ UNCHANGED notThreads
        \/ SaveDisk(t) /\ UNCHANGED notThreads
        \/ StatsRead(t) /\ UNCHANGED notThreads
        \/ StatsWrite(t) /\ UNCHANGED notThreads

(* threads calling get, and threads calling set, on a cache at its capacity *)
InitConcurrentGet == ThreadsInit("get") /\ RouterIdle /\ AggIdle /\ ReviewIdle /\ ExecIdle /\ KeyIdle /\ PipeIdle
SpecConcurrentGet == InitConcurrentGet /\ [][ConcurrentGetNext]_vars
InitConcurrentSet == ThreadsInit("set") /\ RouterIdle /\ AggIdle /\ ReviewIdle /\ ExecIdle /\ KeyIdle /\ PipeIdle
SpecConcurrentSet == InitConcurrentSet /\ [][ConcurrentSetNext]_vars

FaultKeys == {"k1", "k2"}
FaultyNext ==
    \/ \E key \in FaultKeys, r \in ReadOutcomes, u \in UnlinkOutcomes :
          CacheGet(key, [IoOk EXCEPT !.read = r, !.unlink = u]) /\ UNCHANGED notCache
    \/ \E key \in FaultKeys, value \in CacheValues, ttl \in {0, 1}, w \in WriteOutcomes :
          CacheSet(key, value, ttl, [IoOk EXCEPT !.write = w]) /\ UNCHANGED notCache
    \/ \E key \in FaultKeys, u \in UnlinkOutcomes :
          CacheDelete(key, [IoOk EXCEPT !.unlink = u]) /\ UNCHANGED notCache
    \/ Tick /\ UNCHANGED notCache

(* the cache manager on a durable tier whose calls can fail *)
SpecCacheFaulty == InitCache /\ [][FaultyNext]_vars

TtlNext ==
    \/ \E key \in FaultKeys : CacheGet(key, IoOk) /\ UNCHANGED notCache
    \/ \E key \in FaultKeys, value \in CacheValues, ttl \in {NoTtl, 0} :
          CacheSet(key, value, ttl, IoOk) /\ UNCHANGED notCache
    \/ CacheCleanupExpired(IoOk) /\ UNCHANGED notCache
    \/ CacheReopen /\ UNCHANGED notCache
    \/ Tick /\ UNCHANGED notCache
    \/ LongWait /\ UNCHANGED notCache

(* entries stored without an expiry or with the default one, over a long time *)
SpecTtl == InitCache /\ [][TtlNext]_vars

----------------------------------------------------------------------------
(* Properties of the model router *)

Done == {"returned", "raised"}
NoDup(s) == \A i, j \in 1..Len(s) : s[i] = s[j] => i = j
Pos(m, s) == CHOOSE i \in 1..Len(s) : s[i] = m
FailedOn(m, n) == {i \in 1..n : calls[i].model = m /\ ~calls[i].ok}
MaxAttempts == Len(fallback_chain) * max_retries

(* C1: call_with_fallback returns on the first successful call_function call:
   the successful call is the last call made and the only one that succeeded,
   every model before it in the chain failed max_retries times, the returned
   pair is that call's result and that call's model, and no call is made
   once the function has returned. *)
C1_ReturnsFirstSuccess ==
    /\ [](pc = "returned" =>
            /\ Len(calls) >= 1
            /\ Last(calls).ok
            /\ \A i \in 1..(Len(calls) - 1) : ~calls[i].ok
            /\ Last(calls).model = fallback_chain[idx]
            /\ \A q \in 1..(idx - 1) :
                   Cardinality(FailedOn(fallback_chain[q], Len(calls))) = max_retries
            /\ outcome = Returned(Last(calls).result, Last(calls).model))
    /\ [][pc = "returned" /\ pc' = "returned" => calls' = calls]_vars

(* the first K = 1 or more models failed on every attempt and the next one answered *)
C1_Witness ==
    /\ pc = "returned"
    /\ idx >= 2
    /\ max_retries = 2
    /\ Len(calls) = (idx - 1) * max_retries + 1
    /\ outcome.model_used # model_name

(* C2: the call_function calls follow the chain order: a call on the model at
   position p comes after exactly max_retries failed calls on every earlier
   position, never after a call on a later position, and no model gets more
   than max_retries calls. *)
C2_StrictChainOrder ==
    \A j \in 1..Len(calls) :
        LET p == Pos(calls[j].model, fallback_chain) IN
        /\ InSeq(calls[j].model, fallback_chain)
        /\ \A i \in 1..(j - 1) : Pos(calls[i].model, fallback_chain) <= p
        /\ \A q \in 1..(p - 1) :
               Cardinality(FailedOn(fallback_chain[q], j - 1)) = max_retries
        /\ Cardinality({i \in 1..j : calls[i].model = calls[j].model}) <= max_retries

(* the third model of a chain is being tried after two retried failures each *)
C2_Witness ==
    /\ pc = "attempting"
    /\ idx = 3
    /\ max_retries = 2
    /\ Len(calls) = 4

(* C3 as stated: at most chain length x max_retries calls, with equality
   exactly when every attempt fails. *)
C3_Original ==
    pc \in Done =>
        /\ Len(calls) <= MaxAttempts
        /\ (Len(calls) = MaxAttempts <=> \A i \in 1..Len(calls) : ~calls[i].ok)

(* C3 amended: every started call_with_fallback terminates; it makes at most
   chain length x max_retries calls; it makes exactly that many when and only
   when no attempt before the last permitted one succeeds (every attempt
   fails, or only the final attempt on the final model succeeds). *)
C3_BoundedAttempts ==
    /\ [](Len(calls) <= MaxAttempts)
    /\ [](pc \in Done =>
            (Len(calls) = MaxAttempts <=>
                \A i \in 1..Len(calls) : calls[i].ok => i = MaxAttempts))
    /\ [](pc = "raised" => Len(calls) = MaxAttempts)
    /\ (pc = "attempting" ~> pc \in Done)

(* a three-model chain exhausted after two attempts each *)
C3_Witness ==
    /\ pc = "raised"
    /\ Len(fallback_chain) = 3
    /\ max_retries = 2
    /\ Len(calls) = 6

(* C4: when the chain is exhausted the error reaching the caller is the error
   raised by the final call_function attempt, the same error. *)
C4_ReRaisesLastError ==
    pc = "raised" => outcome.error = last_exception

(* C5: get_fallback_chain(model, max_depth) returns a duplicate-free sequence
   that starts at model, links each element to get_fallback_model of its
   predecessor, follows at most max_depth links, and stops short of
   max_depth only at a model with no fallback or whose fallback is already
   in the chain. *)
C5_FallbackChainShape ==
    chain_query # NoQuery =>
        LET c == chain_query.chain
            d == chain_query.max_depth
        IN  /\ Len(c) >= 1
            /\ c[1] = chain_query.model
            /\ NoDup(c)
            /\ \A i \in 2..Len(c) : c[i] = get_fallback_model(fallback_models, c[i - 1])
            /\ Len(c) - 1 <= d
            /\ Len(c) - 1 < d =>
                  LET f == get_fallback_model(fallback_models, Last(c)) IN
                  f = None \/ InSeq(f, c)

(* a cyclic map: the walk stopped because the next fallback is already in the chain *)
C5_Witness ==
    /\ chain_query # NoQuery
    /\ chain_query.max_depth = 3
    /\ Len(chain_query.chain) = 2
    /\ get_fallback_model(fallback_models, Last(chain_query.chain)) = chain_query.model

----------------------------------------------------------------------------
(* Properties of the decision aggregator *)

(* a compliance result that carries passed=false: at the top level of a flat
   result, or in the data (or data.overall) of a wrapped one *)
HasFalse(d) == "passed" \in DOMAIN d /\ d["passed"] = FALSE
ReportsNotPassed(c) ==
    IF "data" \in DOMAIN c
    THEN \/ HasFalse(c["data"])
         \/ "overall" \in DOMAIN c["data"] /\ HasFalse(c["data"]["overall"])
    ELSE HasFalse(c)

(* C6: compliance veto: when the compliance result reports passed=false the
   decision is MUST_OPTIMIZE, whatever the quality and engagement scores and
   whether or not engagement is present. *)
C6_ComplianceVeto ==
    (agg_out # NoOverall /\ ReportsNotPassed(agg_in.compliance))
        => agg_out.decision = "MUST_OPTIMIZE"

(* quality 9.0 and engagement 9.0 with a failed compliance gate *)
C6_Witness ==
    /\ agg_out # NoOverall
    /\ ReportsNotPassed(agg_in.compliance)
    /\ agg_out.quality_score = 90
    /\ agg_out.engagement_score = 90
    /\ agg_out.overall20 >= PublishThreshold20

----------------------------------------------------------------------------
(* Properties of the cache store *)

(* the last operation was get(k) on a key whose last set gave a ttl > 0 *)
GotKeySetWithTtl ==
    /\ last_op.op = "get"
    /\ last_set[last_op.key] # NoSet
    /\ last_set[last_op.key].ttl > 0

(* C8: after set(key, value, ttl) with ttl > 0, a get(key) issued before the
   ttl has elapsed, with no set, delete or clear of the key in between,
   returns value: from memory, from the durable tier after an eviction, and
   from a new CacheManager on the same directory. *)
C8_GetReturnsSetValue ==
    (/\ GotKeySetWithTtl
     /\ ~last_set[last_op.key].removed
     /\ last_op.at <= last_set[last_op.key].expires_at)
        => last_op.ret = last_set[last_op.key].value

(* a get right after a set on a full memory tier: the new entry was evicted
   by its own insertion, is served from the durable tier, and its promotion
   is evicted again *)
C8_Witness ==
    /\ GotKeySetWithTtl
    /\ ~last_set[last_op.key].removed
    /\ last_op.at <= last_set[last_op.key].expires_at
    /\ last_op.path = "disk"
    /\ MemIndex(memory_cache, last_op.key) = 0
    /\ Len(memory_cache) = MaxMemoryItems

(* C9: once the ttl of an entry set with ttl > 0 has elapsed, get(key) returns
   absent and afterwards neither the memory tier nor the durable tier holds
   the key. *)
C9_ExpiredGetPurges ==
    (GotKeySetWithTtl /\ last_op.at > last_set[last_op.key].expires_at)
        => /\ last_op.ret = None
           /\ MemIndex(memory_cache, last_op.key) = 0
           /\ ~FileExists(disk_cache, last_op.key)

(* the get found the expired entry in memory, with its file still on disk *)
C9_Witness ==
    /\ GotKeySetWithTtl
    /\ last_op.at > last_set[last_op.key].expires_at
    /\ last_op.path = "memory_expired"

(* C10: the memory tier never holds more than max_memory_items entries after
   a completed operation. *)
C10_MemoryBound == Len(memory_cache) <= MaxMemoryItems

(* a get promoted an entry from the durable tier into a full memory tier *)
C10_Witness ==
    /\ last_op.path = "disk"
    /\ Len(memory_cache) = MaxMemoryItems
    /\ MemIndex(memory_cache, last_op.key) # 0
    /\ Cardinality(DOMAIN disk_cache) > MaxMemoryItems

----------------------------------------------------------------------------
(* Properties of the memoized review pipeline *)

(* the last two review calls were made with the same title, content and mode,
   both with use_cache, the first one missed the cache and ran the
   evaluators, and the second one came before the first one's TTL elapsed *)
RepeatedReview ==
    /\ prev_call.called
    /\ last_call.called
    /\ last_call.content_data = prev_call.content_data
    /\ last_call.enable_engagement = prev_call.enable_engagement
    /\ prev_call.use_cache
    /\ last_call.use_cache
    /\ prev_call.ran
    /\ last_call.at < prev_call.at + prev_call.cache_ttl

(* C7: of two successive calls with identical title, content and mode, made
   with use_cache and the second before the TTL elapses, only the first runs
   the evaluation pipeline: the result the first call returned reports
   from_cache = FALSE, the result of the second reports from_cache = TRUE, and
   the overall verdict of the second is the one of the first. *)
C7_PipelineRunsOnce ==
    RepeatedReview =>
        /\ ~last_call.ran
        /\ prev_call.result.performance.from_cache = FALSE
        /\ last_call.result.performance.from_cache = TRUE
        /\ last_call.result.overall = prev_call.result.overall

(* the repeated call was answered from the durable tier *)
C7_Witness ==
    /\ RepeatedReview
    /\ ~last_call.ran
    /\ last_call.path = "disk"
    /\ last_call.result.overall.decision = "ASK_USER"

----------------------------------------------------------------------------
(* Properties of the parallel executor *)

(* C11: execute_tasks called without a timeout on uniquely named tasks never
   raises, and when it returns the mapping has one TaskResult under every task
   name and no other: for a task whose body raised, success = FALSE with the
   raised error, for any other, success = TRUE with the value its own body
   returned; every task of the batch has run to completion, whichever raised. *)
C11_IsolatedTaskResults ==
    ~ex_timeout =>
        /\ ex_pc # "raised"
        /\ ex_pc = "returned" =>
              /\ DOMAIN ex_results = TaskSet
              /\ \A t \in TaskSet :
                    /\ ex_state[t] = "done"
                    /\ ex_results[t].name = t
                    /\ ex_body[t].kind = "raised" =>
                          /\ ~ex_results[t].success
                          /\ ex_results[t].error = ex_body[t].error
                    /\ ex_body[t].kind = "returned" =>
                          /\ ex_results[t].success
                          /\ ex_results[t].result = ex_body[t].value

(* a batch of three returned with one raising task and two succeeding ones *)
C11_Witness ==
    /\ ~ex_timeout
    /\ ex_pc = "returned"
    /\ Len(ex_tasks) = 3
    /\ ex_body["quality"].kind = "raised"
    /\ ex_body["compliance"].kind = "returned"
    /\ ex_body["engagement"].kind = "returned"
    /\ ex_results["compliance"].result # ex_results["engagement"].result

(* C12: once the timeout has elapsed with a task still unfinished, the caller
   of execute_tasks gets control back whether or not that task ever
   finishes. *)
C12_CallerStopsWaiting ==
    ex_timed_out ~> ex_pc \in {"returned", "raised"}

----------------------------------------------------------------------------
(* Properties of cache_key *)

(* the two calls pass the same positional arguments and the same keyword
   arguments, in whatever keyword order *)
SameArguments ==
    /\ key_in[1].args = key_in[2].args
    /\ Kwargs(key_in[1].kwargs) = Kwargs(key_in[2].kwargs)

(* C17: two cache_key calls return the same key exactly when they pass the
   same positional arguments and the same keyword arguments (in any keyword
   order); argument lists that differ in any way give different keys. *)
C17_KeyInjective ==
    key_out # <<>> => (key_out[1] = key_out[2] <=> SameArguments)

----------------------------------------------------------------------------
(* Properties of the decision aggregator, continued *)

Aggregated == agg_out # NoOverall
InScore == Get(agg_in.quality, "score", 0)
InEngagement == Get(agg_in.engagement, "score", 0)
WithoutEngagement ==
    calculate_overall_score(agg_in.quality, agg_in.compliance, NoEngagement)

(* C13 as stated: leaving the engagement result out never gives a higher
   overall score than the same input with it, and an input without an
   engagement result is scored as if engagement were 0 at full weight. *)
C13_Original ==
    Aggregated =>
        /\ Truthy(agg_in.engagement) => WithoutEngagement.overall20 <= agg_out.overall20
        /\ ~Truthy(agg_in.engagement) =>
              /\ agg_out.engagement_score = 0
              /\ agg_out.overall20 = InScore + 0

(* C13, amended: an absent engagement result (None or an empty dict) carries
   no weight: engagement_score is None and the overall score is the quality
   score alone; a present one carries half the weight, a present one without a
   score (a failed evaluation) counting 0; so leaving engagement out raises
   the overall score exactly when its score is below the quality score. *)
C13_AbsentEngagementCarriesNoWeight ==
    Aggregated =>
        /\ ~Truthy(agg_in.engagement) =>
              /\ agg_out.engagement_score = NoneScore
              /\ agg_out.overall20 = 2 * InScore
        /\ Truthy(agg_in.engagement) =>
              /\ agg_out.engagement_score = InEngagement
              /\ agg_out.overall20 = InScore + InEngagement
              /\ WithoutEngagement.overall20 > agg_out.overall20 <=> InEngagement < InScore

(* quality 9.0 with engagement 7.0: 8.0 with the dimension, 9.0 without *)
C13_Witness ==
    /\ Aggregated
    /\ Truthy(agg_in.engagement)
    /\ InScore = 90
    /\ InEngagement = 70
    /\ agg_out.score = 80
    /\ WithoutEngagement.score = 90

(* the decision that the thresholds give for a score in tenths or twentieths *)
ByThresholds(sc, publish, ask) ==
    IF sc >= publish THEN "PUBLISH" ELSE IF sc >= ask THEN "ASK_USER" ELSE "RECOMMEND_OPTIMIZE"

(* C18 as stated, on the overall score of the returned decision: when
   compliance passes the decision is PUBLISH iff score >= 8.0, ASK_USER iff
   6.0 <= score < 8.0 and RECOMMEND_OPTIMIZE iff score < 6.0. *)
C18_Original ==
    (Aggregated /\ agg_out.compliance_passed) =>
        agg_out.decision = ByThresholds(agg_out.score, 80, 60)

(* C18, amended: when compliance passes the decision is the total function of
   the unrounded mean with thresholds 8.0 and 6.0 (quality 9 and engagement 9
   give PUBLISH with a score of at least 8.0, quality 7 and engagement 7 give
   ASK_USER); the score of the returned decision is that mean rounded to one
   decimal, within 0.05 of it. *)
C18_DecisionByUnroundedMean ==
    (Aggregated /\ agg_out.compliance_passed) =>
        /\ agg_out.decision = ByThresholds(agg_out.overall20, PublishThreshold20, AskThreshold20)
        /\ 2 * agg_out.score - agg_out.overall20 \in {-1, 0, 1}
        /\ (InScore = 90 /\ agg_out.engagement_score = 90) =>
              (agg_out.decision = "PUBLISH" /\ agg_out.score >= 80)
        /\ (InScore = 70 /\ agg_out.engagement_score = 70) => agg_out.decision = "ASK_USER"

(* quality 8.0 and engagement 7.9: mean 7.95, reported 8.0, decision ASK_USER *)
C18_Witness ==
    /\ Aggregated
    /\ agg_out.compliance_passed
    /\ agg_out.overall20 = 159
    /\ agg_out.score = 80
    /\ agg_out.decision = "ASK_USER"

(* a score clamped into [0, 10] *)
Clamp(sc) == IF sc < 0 THEN 0 ELSE IF sc > 100 THEN 100 ELSE sc
Clamped(result) ==
    IF Truthy(result) /\ "score" \in DOMAIN result
    THEN [result EXCEPT !["score"] = Clamp(result["score"])]
    ELSE result

(* C19: whatever scores the evaluators return, the overall score and every
   per-dimension score of the returned decision lie in [0, 10], and the
   decision is the one that the scores clamped into [0, 10] give. *)
C19_ScoresClamped ==
    Aggregated =>
        /\ agg_out.score \in 0..100
        /\ agg_out.quality_score \in 0..100
        /\ agg_out.engagement_score \in 0..100 \cup {NoneScore}
        /\ agg_out.compliance_score \in 0..100
        /\ agg_out.decision =
              calculate_overall_score(Clamped(agg_in.quality), agg_in.compliance,
                                      Clamped(agg_in.engagement)).decision

(* the suggestions a dimension's result carries *)
SuggestionsOf(result) ==
    IF ~Truthy(result) THEN <<>>
    ELSE IF "data" \in DOMAIN result THEN Get(result["data"], "suggestions", <<>>)
    ELSE Get(result, "suggestions", <<>>)
Elems(s) == {s[i] : i \in 1..Len(s)}
AllSuggestions ==
    Elems(SuggestionsOf(agg_in.quality)) \cup Elems(SuggestionsOf(agg_in.engagement))
        \cup Elems(SuggestionsOf(agg_in.compliance))

(* C20: the suggestions of the decision are drawn from the suggestions of all
   the evaluated dimensions, no suggestion occurs twice, there are at most
   MaxSuggestions of them, and none is left out while there is room. *)
C20_SuggestionsDeduplicated ==
    Aggregated =>
        /\ NoDup(agg_out.suggestions)
        /\ Len(agg_out.suggestions) <= MaxSuggestions
        /\ Elems(agg_out.suggestions) \subseteq AllSuggestions
        /\ Len(agg_out.suggestions) < MaxSuggestions =>
              Elems(agg_out.suggestions) = AllSuggestions

----------------------------------------------------------------------------
(* Properties of the review pipeline with failing evaluators *)

(* the evaluator's task raised, or it returned an error answer or text that is
   not JSON *)
EvaluatorFailed(name) ==
    \/ pipe_in[name].kind = "raised"
    \/ pipe_in[name].value = InvalidJson
    \/ pipe_in[name].value \in {Json(EvaluatorErrorResult), Json(ComplianceError)}

(* C14: when an evaluator fails, review_content_optimized still returns a
   complete decision, in which the failed dimension has score 0 and, if the
   failed dimension is compliance, compliance_passed is FALSE. *)
C14_FailedEvaluatorFailsClosed ==
    pipe_out.called =>
        LET overall == pipe_out.result.overall
        IN  /\ overall.decision \in {"PUBLISH", "ASK_USER", "RECOMMEND_OPTIMIZE", "MUST_OPTIMIZE"}
            /\ EvaluatorFailed("quality") => overall.quality_score = 0
            /\ (pipe_in.enable_engagement /\ EvaluatorFailed("engagement")) =>
                  overall.engagement_score = 0
            /\ EvaluatorFailed("compliance") =>
                  (overall.compliance_score = 0 /\ ~overall.compliance_passed)

----------------------------------------------------------------------------
(* Properties of the cache store on a failing durable tier, and of TTLs *)

(* C15: get, set and delete end normally whatever durable-tier call fails, and
   a get made right after a set whose durable write failed returns the value
   that was set. *)
C15_MemoryOnlyAfterFailedWrite ==
    [][(/\ last_op.op = "set"
        /\ last_op.write # "ok"
        /\ last_op'.op = "get"
        /\ last_op'.key = last_op.key
        /\ last_op'.at = last_op.at
        /\ ops' = ops + 1)
       => last_op'.ret = last_set[last_op.key].value]_vars

(* a get of a key whose last set is still in force *)
GotKeySetWith(ttls) ==
    /\ last_op.op = "get"
    /\ ~last_set[last_op.key].removed
    /\ last_set[last_op.key].ttl \in ttls

(* C16 as stated: an entry stored with ttl 0 or without a ttl argument never
   expires: a later get returns its value however much time has passed. *)
C16_Original ==
    GotKeySetWith({0, NoTtl}) => last_op.ret = last_set[last_op.key].value

(* C16, amended: an entry stored with ttl 0 never expires, neither for get nor
   for cleanup_expired; an entry stored without a ttl argument gets
   default_ttl (3600 s): a get returns its value up to 3600 s after the set
   and None afterwards. *)
C16_ZeroTtlNeverExpires ==
    /\ GotKeySetWith({0}) => last_op.ret = last_set[last_op.key].value
    /\ GotKeySetWith({NoTtl}) =>
          IF last_op.at <= last_set[last_op.key].expires_at
          THEN last_op.ret = last_set[last_op.key].value
          ELSE last_op.ret = None

(* an entry with ttl 0 read back more than an hour after it was stored *)
C16_Witness ==
    /\ GotKeySetWith({0})
    /\ last_op.at > DefaultTtl
    /\ last_op.ret = last_set[last_op.key].value

----------------------------------------------------------------------------
(* Properties of the result cache's keys and of clear_review_cache *)

SameRequest ==
    /\ last_call.content_data = prev_call.content_data
    /\ last_call.enable_engagement = prev_call.enable_engagement

(* C21: two requests share a cache key only if their titles, contents and
   modes are the same, and a request answered from the cache right after the
   only request that stored a decision has that request's title, content and
   mode. *)
C21_HitOnlyForSameRequest ==
    (prev_call.called /\ last_call.called) =>
        /\ review_key(last_call.content_data, last_call.enable_engagement)
              = review_key(prev_call.content_data, prev_call.enable_engagement)
           => SameRequest
        /\ (stats.sets = 1 /\ prev_call.ran /\ ~last_call.ran) => SameRequest

(* C26: after clear_review_cache has returned, the next
   review_content_optimized call with use_cache runs the pipeline, and the
   count returned was the number of review entries that existed, the durable
   tier included. *)
C26_ClearRemovesEveryReview ==
    [][(last_op.op = "clear_review" /\ last_op'.op = "review")
       => (last_call'.ran /\ last_op.ret = Cardinality(last_op.files))]_vars

----------------------------------------------------------------------------
(* Properties of eviction *)

KeysOf(mem) == {mem[i].key : i \in 1..Len(mem)}

(* the step is a set, or a get that loads an entry from the durable tier: the
   operations that insert into the memory tier *)
Inserts ==
    /\ ops' = ops + 1
    /\ \/ last_op'.op = "set"
       \/ last_op'.op = "get" /\ last_op'.path = "disk"

(* hit_count of key k when the eviction of the step runs: the inserted entry
   has its initial or stored count, the others what they had *)
HitAtEviction(k) ==
    IF k = last_op'.key
    THEN (IF last_op'.op = "set" THEN 0 ELSE disk_cache[k].hit_count)
    ELSE memory_cache[MemIndex(memory_cache, k)].hit_count

(* C24: an operation that brings the memory tier over max_memory_items removes
   exactly size - max_memory_items entries (and none when it is not over), and
   every removed entry has a hit_count at most that of every entry that
   stays. *)
C24_EvictsLowestHitCounts ==
    [][Inserts =>
        LET before == KeysOf(memory_cache) \cup {last_op'.key}
            after == KeysOf(memory_cache')
            over == Cardinality(before) - MaxMemoryItems
        IN  /\ after \subseteq before
            /\ Cardinality(before \ after) = (IF over > 0 THEN over ELSE 0)
            /\ \A r \in before \ after, k \in after : HitAtEviction(r) <= HitAtEviction(k)]_vars

(* a set whose own entry was evicted at once, the entries that stay having
   been read before *)
C24_Witness ==
    /\ last_op.op = "set"
    /\ MemIndex(memory_cache, last_op.key) = 0
    /\ Len(memory_cache) = MaxMemoryItems
    /\ \A i \in 1..Len(memory_cache) : memory_cache[i].hit_count > 0

----------------------------------------------------------------------------
(* Properties of the shipped fallback configuration *)

CostRank == [low |-> 1, medium |-> 2, high |-> 3]
cost_level(m) == MODEL_INFO[m].cost_level

(* C25: along the fallback chain of every model of the configured fallback
   map, each step goes to a model whose cost_level is less than or equal to
   that of the model it replaces *)
C25_CostNeverIncreases ==
    (chain_query.model \in DOMAIN FALLBACK_MODELS) =>
        \A i \in 1..(Len(chain_query.chain) - 1) :
            CostRank[cost_level(chain_query.chain[i + 1])] <= CostRank[cost_level(chain_query.chain[i])]

----------------------------------------------------------------------------
(* Properties of the pipeline's compliance gate, of returned results and of
   what the result cache holds *)

(* C27: when the compliance evaluator succeeds and reports zero issues
   (score 10, risk_level low), review_content_optimized reports
   compliance_passed = TRUE and does not return MUST_OPTIMIZE. *)
C27_CompliantContentPasses ==
    (/\ pipe_out.called
     /\ pipe_in.compliance.kind = "returned"
     /\ pipe_in.compliance.value = Json(ComplianceSuccess(0)))
    => /\ pipe_out.result.overall.compliance_passed
       /\ pipe_out.result.overall.decision # "MUST_OPTIMIZE"

(* C28: the result a call returned after running the pipeline was annotated
   from_cache = FALSE, and the object handed to that caller, which is also the
   value stored in the memory tier, still has every field it had on return
   whatever calls were made since. *)
C28_ReturnedResultUnchanged ==
    (prev_call.called /\ prev_call.ran) =>
        /\ prev_call.result.performance.from_cache = FALSE
        /\ heap[prev_call.ret] = prev_call.result

(* a dimension of the result carries an error result instead of a score *)
Degraded(result) ==
    \E d \in DOMAIN result \ {"overall", "performance"} : "error" \in DOMAIN result[d]

(* C30: a decision computed while an evaluator failed is not stored: the next
   call with the same title, content and mode and use_cache runs the
   evaluators again. *)
C30_DegradedDecisionNotMemoized ==
    (RepeatedReview /\ Degraded(prev_call.result)) => last_call.ran

(* C29: a get that returns a value returns the value of the most recent set of
   its key, also when durable writes have failed. *)
C29_GetNeverStale ==
    (last_op.op = "get" /\ last_op.ret # None) =>
        last_op.ret = last_set[last_op.key].value

----------------------------------------------------------------------------
(* Properties of the cache manager called from several threads *)

AllReturned == \A t \in ThreadIds : threads[t].pc = "done"

(* C22: no increment of get is lost: when the N gets made on the key held in
   memory have completed, the entry's hit_count has grown by N and stats.hits
   by N. *)
C22_NoLostIncrement ==
    AllReturned =>
        LET n == Cardinality({t \in ThreadIds : threads[t].key = "k1"})
        IN  /\ memory_cache[MemIndex(memory_cache, "k1")].hit_count = n
            /\ stats.hits = n

(* C23: no concurrent set raises, and when all of them have returned the
   memory tier holds at most max_memory_items entries. *)
C23_EvictionAtomic ==
    /\ \A t \in ThreadIds : threads[t].pc # "raised"
    /\ AllReturned => Len(memory_cache) <= MaxMemoryItems

====
